---- MODULE Spec2Model ----
(***************************************************************************)
(* Credential lifecycle of the user management API in src/main.py:         *)
(* signup, signin, forget-password and reset-password over the users       *)
(* table, together with the password policy validate_password.             *)
(*                                                                         *)
(* Strings are sequences of characters.  The database NULL is None; the    *)
(* empty string a client may send as a token is EmptyStr; the hexadecimal  *)
(* strings produced by secrets.token_hex(16) are numbered 1, 2, ... in the *)
(* order they are drawn (a 128-bit draw from the system CSPRNG is taken    *)
(* never to repeat an earlier one).                                        *)
(*                                                                         *)
(* Three specifications are given over the same variables:                 *)
(*   SpecV  validate_password applied to every string up to MaxLen,        *)
(*   Spec   the four handlers called one after the other,                  *)
(*   SpecC  the handlers of two concurrent requests, interleaved at   *)
(*          their awaits (the SELECT and the COMMIT).                      *)
(***************************************************************************)
EXTENDS Integers, Sequences, FiniteSets, TLC

VARIABLES
    users,      \* rows of table "users": [id, email, password, reset_token]
    id_seq,     \* last value handed out by the serial of users.id
    issued,     \* number of tokens drawn from secrets.token_hex so far
    sess,       \* per request in flight: the handler's position and locals
    last,       \* the most recent completed call and its outcome (Spec)
    before,     \* the rows of "users" when that call started (Spec)
    pw_in,      \* SpecV: the string handed to validate_password
    pw_out      \* SpecV: what validate_password did with it

vars == <<users, id_seq, issued, sess, last, before, pw_in, pw_out>>

\* ------------------------------------------------------------------ bounds
MaxLen == 3        \* longest string handed to validate_password in SpecV
MaxTokens == 3     \* token_hex draws per behaviour
MaxIds == 3        \* INSERT attempts per behaviour

\* ------------------------------------------------------------------ values
None == -1         \* NULL / Python None in a reset_token
EmptyStr == 0      \* the token "" a client may send

Alphabet == {"A", "a", "@", "1"}
Strings(n) == UNION {[1..k -> Alphabet] : k \in 0..n}

Emails == {"e1", "e2"}
Passwords == {<<>>, <<"a", "@", "1">>, <<"A", "@", "1">>, <<"A", "1", "@">>}
ClientTokens == EmptyStr..MaxTokens
Procs == {"r1", "r2"}     \* the requests in flight at once in SpecC

NoRow == [id |-> 0, email |-> "", password |-> <<>>, reset_token |-> None]

\* ------------------------------------------------------- validate_password
isupper(ch) == ch \in {"A"}
isdigit(ch) == ch \in {"1"}

\* "True", "False", or "IndexError": password[0] of the empty string raises.
validate_password(password) ==
    IF Len(password) = 0 THEN "IndexError"
    ELSE IF ~isupper(password[1]) THEN "False"
    ELSE IF ~(\E i \in 1..Len(password) : password[i] = "@") THEN "False"
    ELSE IF ~(\E i \in 1..Len(password) : isdigit(password[i])) THEN "False"
    ELSE "True"

\* ------------------------------------------------------------ the store
\* q.scalars().first(): one of the selected rows, or None when there is none.
first(rows) == IF rows = {} THEN {NoRow} ELSE rows

\* select(User).where(User.email == email)
select_by_email(us, email) == {u \in us : u.email = email}

\* Variant: a NULL reset_token read as the empty string.
select_by_token_nullempty(us, token) ==
    {u \in us : u.reset_token = token
                 \/ (u.reset_token = None /\ token = EmptyStr)}

\* select(User).where(User.reset_token == token); NULL equals nothing.
select_by_token(us, token) ==
    {u \in us : u.reset_token # None /\ u.reset_token = token}

\* Variant: the column declared without unique=True.
unique_email_unchecked(us, email) == TRUE

\* Column(String, unique=True) on users.email: the INSERT is accepted only
\* when no committed row carries the email.
unique_email(us, email) == ~(\E u \in us : u.email = email)

\* Variant: a token that is the same on every draw.
token_hex_const(n) == 1

\* secrets.token_hex(16), the (n+1)-th draw.
token_hex(n) == n + 1

\* ---------------------------------------------------- a request's locals
Idle ==
    [pc |-> "idle", op |-> "none", email |-> "", password |-> <<>>,
     token |-> None, row |-> NoRow, result |-> "none"]

\* The handler has raised or returned: its locals are gone, the request's
\* key (email or token) and the response remain.
Done(op, email, token, result) ==
    [pc |-> "done", op |-> op, email |-> email, password |-> <<>>,
     token |-> token, row |-> NoRow, result |-> result]

\* The handler is suspended in "await db.commit()".
AtCommit(op, email, password, token, row) ==
    [pc |-> "commit", op |-> op, email |-> email, password |-> password,
     token |-> token, row |-> row, result |-> "none"]

\* ------------------------------------------------------------- /signup
\* Variant: the password is stored without being validated.
signup_begin_novalidate(us, email, password) ==
    {IF existing_user # NoRow
     THEN Done("signup", email, None, "EmailTaken")
     ELSE AtCommit("signup", email, password, None, NoRow)
     : existing_user \in first(select_by_email(us, email))}

\* Variant: no lookup of the email before db.add.
signup_begin_nocheck(us, email, password) ==
    LET v == validate_password(password) IN
    IF v = "IndexError" THEN {Done("signup", email, None, "IndexError")}
    ELSE IF v = "False"
    THEN {Done("signup", email, None, "WeakPassword")}
    ELSE {AtCommit("signup", email, password, None, NoRow)}

\* Lines 69-80: validate, SELECT by email, reject a taken email, db.add.
signup_begin(us, email, password) ==
    LET v == validate_password(password) IN
    IF v = "IndexError" THEN {Done("signup", email, None, "IndexError")}
    ELSE IF v = "False"
    THEN {Done("signup", email, None, "WeakPassword")}
    ELSE {IF existing_user # NoRow
          THEN Done("signup", email, None, "EmailTaken")
          ELSE AtCommit("signup", email, password, None, NoRow)
          : existing_user \in first(select_by_email(us, email))}

\* Variant: the primary key is not taken from the serial.
signup_commit_fixed_id(us, ids, s) ==
    IF unique_email(us, s.email)
    THEN [users |-> us \cup {[id |-> 1, email |-> s.email,
                              password |-> s.password, reset_token |-> None]},
          id_seq |-> ids + 1, result |-> "ok"]
    ELSE [users |-> us, id_seq |-> ids + 1, result |-> "IntegrityError"]

\* Lines 82-83: the INSERT takes the next id; a duplicate email makes the
\* commit raise IntegrityError, which the handler does not catch.
signup_commit(us, ids, s) ==
    IF unique_email(us, s.email)
    THEN [users |-> us \cup {[id |-> ids + 1, email |-> s.email,
                              password |-> s.password, reset_token |-> None]},
          id_seq |-> ids + 1, result |-> "ok"]
    ELSE [users |-> us, id_seq |-> ids + 1, result |-> "IntegrityError"]

\* ------------------------------------------------------------- /signin
\* Variant: an unknown email answered with its own error.
signin_enumerating(us, email, password) ==
    {IF db_user = NoRow THEN "EmailNotFound"
     ELSE IF db_user.password # password THEN "InvalidCredentials" ELSE "ok"
     : db_user \in first(select_by_email(us, email))}

\* Lines 88-93: the possible results, one per row first() may return.
signin(us, email, password) ==
    {IF db_user = NoRow \/ db_user.password # password
     THEN "InvalidCredentials" ELSE "ok"
     : db_user \in first(select_by_email(us, email))}

\* ---------------------------------------------------- /forget-password
\* Lines 98-104: SELECT by email, 404 when absent, draw the token and set
\* it on the loaded object.  Yields the locals and the new draw count.
forget_password_begin(us, n, email) ==
    {IF db_user = NoRow
     THEN [s |-> Done("forget", email, None, "EmailNotFound"),
           issued |-> n]
     ELSE [s |-> AtCommit("forget", email, <<>>, token_hex(n), db_user),
           issued |-> n + 1]
     : db_user \in first(select_by_email(us, email))}

\* Variant: an outstanding token is kept instead of overwritten.
forget_password_commit_keep(us, s) ==
    [users |-> {IF u.id = s.row.id /\ u.reset_token = None
                THEN [u EXCEPT !.reset_token = s.token] ELSE u : u \in us},
     result |-> "ok"]

\* Lines 105-106: UPDATE users SET reset_token = token WHERE id = db_user.id
forget_password_commit(us, s) ==
    [users |-> {IF u.id = s.row.id
                THEN [u EXCEPT !.reset_token = s.token] ELSE u : u \in us},
     result |-> "ok"]

\* ----------------------------------------------------- /reset-password
\* Lines 111-123: SELECT by token, 400 when absent, validate, set the new
\* password and clear the token on the loaded object.
reset_password_begin(us, token, new_password) ==
    {IF db_user = NoRow
     THEN Done("reset", "", token, "InvalidToken")
     ELSE LET v == validate_password(new_password) IN
          IF v = "IndexError"
          THEN Done("reset", "", token, "IndexError")
          ELSE IF v = "False"
          THEN Done("reset", "", token, "WeakPassword")
          ELSE AtCommit("reset", "", new_password, token, db_user)
     : db_user \in first(select_by_token(us, token))}

\* Variant: the token is cleared but the new password is not stored.
reset_password_commit_nopassword(us, s) ==
    [users |-> {IF u.id = s.row.id
                THEN [u EXCEPT !.reset_token = None] ELSE u : u \in us},
     result |-> "ok"]

\* Variant: the new password is stored but the token is not cleared.
reset_password_commit_keeptoken(us, s) ==
    [users |-> {IF u.id = s.row.id
                THEN [u EXCEPT !.password = s.password] ELSE u : u \in us},
     result |-> "ok"]

\* Lines 124-125: the flush writes the attributes whose value differs from
\* the loaded one: reset_token always (it was loaded non-NULL), password
\* unless the new one equals the loaded one.
\* UPDATE users SET password = ..., reset_token = NULL WHERE id = db_user.id
reset_password_commit(us, s) ==
    [users |-> {IF u.id = s.row.id
                THEN [u EXCEPT !.password = IF s.password # s.row.password
                                            THEN s.password ELSE @,
                               !.reset_token = None]
                ELSE u : u \in us},
     result |-> "ok"]

\* ------------------------------------- the handlers run without interleaving
\* Each yields the outcomes of one whole call: the rows afterwards and the
\* response ("IndexError" and "IntegrityError" are exceptions no handler
\* catches: the request ends in HTTP 500).
signup(us, ids, email, password) ==
    {IF s.pc = "done"
     THEN [users |-> us, id_seq |-> ids, result |-> s.result]
     ELSE signup_commit(us, ids, s)
     : s \in signup_begin(us, email, password)}

forget_password(us, n, email) ==
    {IF b.s.pc = "done"
     THEN [users |-> us, issued |-> b.issued, result |-> b.s.result,
           reset_token |-> None]
     ELSE [users |-> forget_password_commit(us, b.s).users,
           issued |-> b.issued,
           result |-> forget_password_commit(us, b.s).result,
           reset_token |-> b.s.token]
     : b \in forget_password_begin(us, n, email)}

\* Variant: the token is cleared as soon as it is found, before the new
\* password is validated.
reset_password_clear_on_error(us, token, new_password) ==
    {IF s.pc = "done"
     THEN [users |-> {IF u.reset_token = token /\ s.result = "WeakPassword"
                      THEN [u EXCEPT !.reset_token = None] ELSE u
                      : u \in us},
           result |-> s.result]
     ELSE reset_password_commit(us, s)
     : s \in reset_password_begin(us, token, new_password)}

reset_password(us, token, new_password) ==
    {IF s.pc = "done"
     THEN [users |-> us, result |-> s.result]
     ELSE reset_password_commit(us, s)
     : s \in reset_password_begin(us, token, new_password)}

\* ------------------------------------------------------------------- Init
NoCall ==
    [op |-> "none", email |-> "", password |-> <<>>, token |-> None,
     result |-> "none", reset_token |-> None]

Call(op, email, password, token, result, reset_token) ==
    [op |-> op, email |-> email, password |-> password, token |-> token,
     result |-> result, reset_token |-> reset_token]

\* After startup(): create_all has made an empty table.
Init ==
    /\ users = {}
    /\ id_seq = 0
    /\ issued = 0
    /\ sess = [p \in Procs |-> Idle]
    /\ last = NoCall
    /\ before = {}
    /\ pw_in = <<>>
    /\ pw_out = "none"

\* ------------------------------------------------- Spec: sequential calls
Signup(email, password) ==
    \E o \in signup(users, id_seq, email, password) :
        /\ o.id_seq <= MaxIds
        /\ users' = o.users
        /\ id_seq' = o.id_seq
        /\ last' = Call("signup", email, password, None, o.result, None)
        /\ before' = users
        /\ UNCHANGED <<issued, sess, pw_in, pw_out>>

\* Variant: a successful login discards the user's pending reset token.
Signin_clearing(email, password) ==
    \E r \in signin(users, email, password) :
        /\ last' = Call("signin", email, password, None, r, None)
        /\ before' = users
        /\ users' = {IF u.email = email /\ r = "ok"
                     THEN [u EXCEPT !.reset_token = None] ELSE u
                     : u \in users}
        /\ UNCHANGED <<id_seq, issued, sess, pw_in, pw_out>>

Signin(email, password) ==
    \E r \in signin(users, email, password) :
        /\ last' = Call("signin", email, password, None, r, None)
        /\ before' = users
        /\ UNCHANGED <<users, id_seq, issued, sess, pw_in, pw_out>>

ForgetPassword(email) ==
    \E o \in forget_password(users, issued, email) :
        /\ o.issued <= MaxTokens
        /\ users' = o.users
        /\ issued' = o.issued
        /\ last' = Call("forget", email, <<>>, None, o.result, o.reset_token)
        /\ before' = users
        /\ UNCHANGED <<id_seq, sess, pw_in, pw_out>>

ResetPassword(token, new_password) ==
    \E o \in reset_password(users, token, new_password) :
        /\ users' = o.users
        /\ last' = Call("reset", "", new_password, token, o.result, None)
        /\ before' = users
        /\ UNCHANGED <<id_seq, issued, sess, pw_in, pw_out>>

Next ==
    \/ \E email \in Emails, password \in Passwords : Signup(email, password)
    \/ \E email \in Emails, password \in Passwords : Signin(email, password)
    \/ \E email \in Emails : ForgetPassword(email)
    \/ \E token \in ClientTokens, password \in Passwords :
           ResetPassword(token, password)

Spec == Init /\ [][Next]_vars

\* ------------------------------- SpecC: requests interleaved at their awaits
seq_vars == <<last, before, pw_in, pw_out>>

SignupBegin(p, email, password) ==
    /\ sess[p].pc = "idle"
    /\ \E s \in signup_begin(users, email, password) :
           sess' = [sess EXCEPT ![p] = s]
    /\ UNCHANGED <<users, id_seq, issued, seq_vars>>

SignupCommit(p) ==
    /\ sess[p].pc = "commit" /\ sess[p].op = "signup"
    /\ id_seq < MaxIds
    /\ LET o == signup_commit(users, id_seq, sess[p]) IN
           /\ users' = o.users
           /\ id_seq' = o.id_seq
           /\ sess' = [sess EXCEPT ![p] = Done(@.op, @.email, @.token, o.result)]
    /\ UNCHANGED <<issued, seq_vars>>

SigninRun(p, email, password) ==
    /\ sess[p].pc = "idle"
    /\ \E r \in signin(users, email, password) :
           sess' = [sess EXCEPT ![p] = Done("signin", email, None, r)]
    /\ UNCHANGED <<users, id_seq, issued, seq_vars>>

ForgetPasswordBegin(p, email) ==
    /\ sess[p].pc = "idle"
    /\ \E b \in forget_password_begin(users, issued, email) :
           /\ b.issued <= MaxTokens
           /\ sess' = [sess EXCEPT ![p] = b.s]
           /\ issued' = b.issued
    /\ UNCHANGED <<users, id_seq, seq_vars>>

ForgetPasswordCommit(p) ==
    /\ sess[p].pc = "commit" /\ sess[p].op = "forget"
    /\ LET o == forget_password_commit(users, sess[p]) IN
           /\ users' = o.users
           /\ sess' = [sess EXCEPT ![p] = Done(@.op, @.email, @.token, o.result)]
    /\ UNCHANGED <<id_seq, issued, seq_vars>>

ResetPasswordBegin(p, token, new_password) ==
    /\ sess[p].pc = "idle"
    /\ \E s \in reset_password_begin(users, token, new_password) :
           sess' = [sess EXCEPT ![p] = s]
    /\ UNCHANGED <<users, id_seq, issued, seq_vars>>

ResetPasswordCommit(p) ==
    /\ sess[p].pc = "commit" /\ sess[p].op = "reset"
    /\ LET o == reset_password_commit(users, sess[p]) IN
           /\ users' = o.users
           /\ sess' = [sess EXCEPT ![p] = Done(@.op, @.email, @.token, o.result)]
    /\ UNCHANGED <<id_seq, issued, seq_vars>>

\* The response has been sent; the worker takes the next request.
Return(p) ==
    /\ sess[p].pc = "done"
    /\ sess' = [sess EXCEPT ![p] = Idle]
    /\ UNCHANGED <<users, id_seq, issued, seq_vars>>

NextC ==
    \E p \in Procs :
        \/ \E email \in Emails, password \in Passwords :
               SignupBegin(p, email, password)
        \/ SignupCommit(p)
        \/ \E email \in Emails, password \in Passwords :
               SigninRun(p, email, password)
        \/ \E email \in Emails : ForgetPasswordBegin(p, email)
        \/ ForgetPasswordCommit(p)
        \/ \E token \in ClientTokens, password \in Passwords :
               ResetPasswordBegin(p, token, password)
        \/ ResetPasswordCommit(p)
        \/ Return(p)

SpecC == Init /\ [][NextC]_vars

\* ------------------------------------ SpecV: validate_password on its own
InitV ==
    /\ users = {}
    /\ id_seq = 0
    /\ issued = 0
    /\ sess = [p \in Procs |-> Idle]
    /\ last = NoCall
    /\ before = {}
    /\ pw_in \in Strings(MaxLen)
    /\ pw_out = "none"

Validate ==
    /\ pw_out = "none"
    /\ pw_out' = validate_password(pw_in)
    /\ UNCHANGED <<users, id_seq, issued, sess, last, before, pw_in>>

NextV == Validate

SpecV == InitV /\ [][NextV]_vars

\* ================================================================ claims
\* The password policy as the specification states it: non-empty, first
\* character an uppercase letter, an '@', a decimal digit.
PolicyOK(p) ==
    /\ Len(p) > 0
    /\ p[1] \in {"A"}
    /\ \E i \in 1..Len(p) : p[i] = "@"
    /\ \E i \in 1..Len(p) : p[i] \in {"1"}

Errors ==
    {"WeakPassword", "EmailTaken", "InvalidCredentials", "EmailNotFound",
     "InvalidToken"}

RowsOf(us, email) == {u \in us : u.email = email}
Holders(us, token) == {u \in us : u.reset_token = token}

\* C1: in every reachable state, whatever the interleaving of the requests,
\* at most one row of users carries any given email.
C1_UniqueEmail == \A u, v \in users : u.email = v.email => u = v

\* Two signups for one email raced: one row was inserted and the other
\* commit was turned down by the unique index.
C1_Witness ==
    \E p \in Procs :
        /\ sess[p].pc = "done" /\ sess[p].op = "signup"
        /\ sess[p].result = "IntegrityError"
        /\ Cardinality(RowsOf(users, sess[p].email)) = 1

\* C2: validate(p) is true exactly when p is non-empty, starts with an
\* uppercase letter and contains '@' and a digit; it returns false for the
\* empty string instead of faulting.
C2_ValidateIff ==
    pw_out # "none" =>
        /\ pw_out \in {"True", "False"}
        /\ pw_out = "True" <=> PolicyOK(pw_in)

\* C3: register answers WeakPassword whenever the policy rejects the
\* password (the empty one included, a taken email notwithstanding), and
\* then changes no row; it never ends in an unhandled fault.
C3_WeakPasswordRejected ==
    (last.op = "signup" /\ ~PolicyOK(last.password)) =>
        (last.result = "WeakPassword" /\ users = before)

\* C4: register called twice in a row for one (so far unregistered) email
\* with policy-valid passwords: the first call succeeds and creates the user
\* with that password and no reset token; the second fails with EmailTaken
\* and changes nothing.
C4_RegisterTwice ==
    [][(/\ last.op = "signup" /\ last'.op = "signup"
        /\ last'.email = last.email
        /\ PolicyOK(last.password) /\ PolicyOK(last'.password)
        /\ RowsOf(before, last.email) = {})
       => /\ last.result = "ok"
          /\ \E u \in users :
                 /\ RowsOf(users, last.email) = {u}
                 /\ u.password = last.password
                 /\ u.reset_token = None
          /\ last'.result = "EmailTaken"
          /\ users' = users]_vars

C4_Witness ==
    /\ last.op = "signup" /\ last.result = "EmailTaken"
    /\ PolicyOK(last.password)
    /\ users = before
    /\ \E u \in users :
           /\ u.email = last.email
           /\ u.password # last.password
           /\ u.reset_token = None

\* C5: authenticate succeeds exactly when a user with that email exists and
\* its stored password equals the supplied one; every failure, unknown email
\* included, is InvalidCredentials.
C5_Authenticate ==
    last.op = "signin" =>
        /\ last.result \in {"ok", "InvalidCredentials"}
        /\ last.result = "ok" <=>
               \E u \in before :
                   u.email = last.email /\ u.password = last.password

C5_Witness ==
    /\ last.op = "signin" /\ last.result = "InvalidCredentials"
    /\ RowsOf(before, last.email) = {}
    /\ before # {}

\* C6: requestPasswordReset fails with EmailNotFound and changes nothing
\* when no user has the email; otherwise it returns a token T, the user's
\* reset_token is T (whatever token was outstanding) and nothing else
\* changed, the password in particular.
C6_RequestReset ==
    last.op = "forget" =>
        IF RowsOf(before, last.email) = {}
        THEN /\ last.result = "EmailNotFound"
             /\ users = before
        ELSE /\ last.result = "ok"
             /\ last.reset_token # None
             /\ users = {IF u.email = last.email
                         THEN [u EXCEPT !.reset_token = last.reset_token]
                         ELSE u : u \in before}

C6_Witness ==
    /\ last.op = "forget" /\ last.result = "ok"
    /\ \E u \in before :
           /\ u.email = last.email
           /\ u.reset_token \notin {None, last.reset_token}
    /\ \E u \in users :
           u.email = last.email /\ u.reset_token = last.reset_token

\* C7: right after requestPasswordReset returned T for a user, redeeming T
\* with a policy-valid new password succeeds, stores the new password and
\* clears the token; authenticate then succeeds with the new password and
\* fails with InvalidCredentials with the old one (when it differs).
C7_ResetRoundTrip ==
    [][(/\ last.op = "forget" /\ last.result = "ok"
        /\ last'.op = "reset" /\ last'.token = last.reset_token
        /\ PolicyOK(last'.password))
       => /\ last'.result = "ok"
          /\ RowsOf(users', last.email) # {}
          /\ \A u \in RowsOf(users', last.email) :
                 u.password = last'.password /\ u.reset_token = None
          /\ signin(users', last.email, last'.password) = {"ok"}
          /\ \A u \in RowsOf(users, last.email) :
                 u.password # last'.password =>
                     signin(users', last.email, u.password)
                         = {"InvalidCredentials"}]_vars

C7_Witness ==
    /\ last.op = "reset" /\ last.result = "ok"
    /\ last.token = issued
    /\ \E u \in before :
           /\ u.reset_token = last.token
           /\ u.password # last.password
           /\ signin(users, u.email, last.password) = {"ok"}
           /\ signin(users, u.email, u.password) = {"InvalidCredentials"}

\* C8: redeemPasswordReset fails with InvalidToken when no user holds the
\* token (whatever the password), and with WeakPassword when a user holds
\* it and the policy rejects the new password; either way no row changes.
C8_RedeemFailures ==
    last.op = "reset" =>
        /\ Holders(before, last.token) = {} =>
               (last.result = "InvalidToken" /\ users = before)
        /\ (Holders(before, last.token) # {} /\ ~PolicyOK(last.password)) =>
               (last.result = "WeakPassword" /\ users = before)

\* C9: one (held) token redeemed twice in a row with policy-valid passwords:
\* the first redemption succeeds, the second fails with InvalidToken and
\* leaves the password the first one set.
C9_RedeemTwice ==
    [][(/\ last.op = "reset" /\ last'.op = "reset"
        /\ last'.token = last.token
        /\ PolicyOK(last.password) /\ PolicyOK(last'.password)
        /\ Holders(before, last.token) # {})
       => /\ last.result = "ok"
          /\ last'.result = "InvalidToken"
          /\ users' = users
          /\ \A u \in Holders(before, last.token) :
                 \E v \in users' :
                     v.id = u.id /\ v.password = last.password]_vars

C9_Witness ==
    /\ last.op = "reset" /\ last.result = "InvalidToken"
    /\ PolicyOK(last.password)
    /\ last.token \in 1..issued
    /\ users = before
    /\ \E u \in users : u.reset_token = None /\ u.password # last.password

\* C10: two requestPasswordReset calls in a row for one user return T1 then
\* T2: redeeming T1 fails with InvalidToken (and changes nothing), redeeming
\* T2 with a policy-valid password succeeds.
C10_StaleToken ==
    [][(/\ last.op = "forget" /\ last.result = "ok"
        /\ last'.op = "forget" /\ last'.result = "ok"
        /\ last'.email = last.email)
       => \A pw \in Passwords :
              /\ \A o \in reset_password(users', last.reset_token, pw) :
                     o.result = "InvalidToken" /\ o.users = users'
              /\ PolicyOK(pw) =>
                     \A o \in reset_password(users', last'.reset_token, pw) :
                         o.result = "ok"]_vars

C10_Witness ==
    /\ last.op = "forget" /\ last.result = "ok"
    /\ \E u \in before :
           /\ u.email = last.email
           /\ u.reset_token = last.reset_token - 1
           /\ u.reset_token # None
           /\ \A pw \in Passwords :
                  \A o \in reset_password(users, u.reset_token, pw) :
                      o.result = "InvalidToken"

\* C11: in every reachable state no two distinct users hold the same
\* non-empty reset token.
C11_UniqueToken ==
    \A u, v \in users :
        (u.reset_token # None /\ u.reset_token = v.reset_token) => u = v

C11_Witness ==
    \E u, v \in users :
        /\ u # v
        /\ u.reset_token # None /\ v.reset_token # None
        /\ \E p \in Procs :
               /\ sess[p].pc = "done" /\ sess[p].op = "forget"
               /\ sess[p].token = u.reset_token

\* C12: in every reachable state every stored password satisfies the
\* password policy.
C12_StoredPasswordsValid == \A u \in users : PolicyOK(u.password)

\* A password written by a redemption and one written by a registration.
C12_Witness ==
    /\ Cardinality(users) = 2
    /\ \E p \in Procs :
           /\ sess[p].pc = "done" /\ sess[p].op = "reset"
           /\ sess[p].result = "ok"

\* C13: two register calls for one not yet registered email, with valid
\* passwords, run concurrently: the one that commits first succeeds, the other
\* returns EmailTaken; neither ends in an unhandled fault.
\* Both requests are past their SELECT (which found no row) when the first
\* of them commits.
C13_ConcurrentRegister ==
    [][\A p, q \in Procs :
          (/\ p # q
           /\ sess[p].pc = "commit" /\ sess[p].op = "signup"
           /\ sess[q].op = "signup" /\ sess[q].email = sess[p].email
           /\ sess'[p].pc = "done")
          => /\ sess[q].pc = "commit" => sess'[p].result = "ok"
             /\ (sess[q].pc = "done" /\ sess[q].result = "ok") =>
                    sess'[p].result = "EmailTaken"]_vars

\* C14: a reset token is single-use under any interleaving: of the
\* redemptions carrying one token, at most one returns success.
C14_SingleUse ==
    \A p, q \in Procs :
        (/\ p # q
         /\ sess[p].pc = "done" /\ sess[p].op = "reset"
         /\ sess[q].pc = "done" /\ sess[q].op = "reset"
         /\ sess[p].token = sess[q].token)
        => ~(sess[p].result = "ok" /\ sess[q].result = "ok")

\* C15: a pending token stays valid until it is redeemed or overwritten:
\* a token held by a user is still held by that user after every step,
\* unless the step completes a successful redemption carrying that token or
\* a requestPasswordReset for that user.
C15_TokenStaysPending ==
    [][\A u \in users :
          u.reset_token # None =>
              \E v \in users' :
                  /\ v.id = u.id
                  /\ \/ v.reset_token = u.reset_token
                     \/ \E p \in Procs :
                            /\ sess[p].pc = "commit" /\ sess'[p].pc = "done"
                            /\ sess'[p].result = "ok"
                            /\ \/ /\ sess[p].op = "reset"
                                  /\ sess[p].token = u.reset_token
                               \/ /\ sess[p].op = "forget"
                                  /\ sess[p].row.id = u.id]_vars

\* C16: two requestPasswordReset calls for one existing email have both
\* completed, however they interleaved: the user's reset token is exactly one
\* of the two returned tokens, that token can be redeemed with a valid
\* password and the other one is rejected with InvalidToken.
C16_ConcurrentRequests ==
    \A p, q \in Procs :
        (/\ p # q
         /\ sess[p].pc = "done" /\ sess[p].op = "forget"
         /\ sess[q].pc = "done" /\ sess[q].op = "forget"
         /\ sess[p].result = "ok" /\ sess[q].result = "ok"
         /\ sess[p].email = sess[q].email)
        => \E u \in users :
               /\ RowsOf(users, sess[p].email) = {u}
               /\ sess[p].token # sess[q].token
               /\ u.reset_token \in {sess[p].token, sess[q].token}
               /\ \A t \in {sess[p].token, sess[q].token}, pw \in Passwords :
                      \A o \in reset_password(users, t, pw) :
                          /\ (t = u.reset_token /\ PolicyOK(pw)) =>
                                 o.result = "ok"
                          /\ t # u.reset_token => o.result = "InvalidToken"

\* The request that drew its token first committed last: the earlier token
\* is the one that stays.
C16_Witness ==
    \E p, q \in Procs :
        /\ p # q
        /\ sess[p].pc = "done" /\ sess[p].op = "forget"
        /\ sess[q].pc = "done" /\ sess[q].op = "forget"
        /\ sess[p].result = "ok" /\ sess[q].result = "ok"
        /\ sess[p].email = sess[q].email
        /\ sess[p].token < sess[q].token
        /\ \E u \in users :
               u.email = sess[p].email /\ u.reset_token = sess[p].token

\* C17: a call changes at most one row of the store (inserts it or updates
\* it), and a call that returns one of the documented errors leaves the rows
\* exactly as they were.
C17_ErrorsChangeNothing ==
    /\ Cardinality(users \ before) <= 1
    /\ Cardinality(before \ users) <= 1
    /\ last.result \in Errors => users = before

C17_Witness ==
    /\ last.op = "reset" /\ last.result = "WeakPassword"
    /\ Holders(before, last.token) # {}
    /\ users = before

\* C18: rows are never deleted and keep their id and email: the set of
\* (id, email) pairs only grows, and no id belongs to two rows.
C18_IdentityStable ==
    [][/\ {<<u.id, u.email>> : u \in users}
              \subseteq {<<u.id, u.email>> : u \in users'}
       /\ \A u, v \in users' : u.id = v.id => u = v]_vars

\* Two users, one created after an INSERT that failed and used up an id,
\* one whose row has since been updated.
C18_Witness ==
    /\ Cardinality(users) = 2
    /\ id_seq > 2
    /\ \E u \in users : u.reset_token # None

\* C19: a user's password changes only when a redemption commits that
\* looked the user up by the token it carries, a token the user held at that
\* lookup (so not NULL, and not the empty string); no other step of any
\* handler changes a stored password.
C19_PasswordChangesOnlyByRedeem ==
    [][\A u \in users, v \in users' :
          (v.id = u.id /\ v.password # u.password) =>
              \E p \in Procs :
                  /\ sess[p].pc = "commit" /\ sess[p].op = "reset"
                  /\ sess'[p].pc = "done" /\ sess'[p].result = "ok"
                  /\ sess[p].row.id = u.id
                  /\ sess[p].row.reset_token = sess[p].token
                  /\ sess[p].token \notin {None, EmptyStr}
                  /\ v.password = sess[p].password]_vars

\* A redemption with the empty string as token was turned down while a user
\* had no pending reset.
C19_Witness ==
    \E p \in Procs :
        /\ sess[p].pc = "done" /\ sess[p].op = "reset"
        /\ sess[p].token = EmptyStr
        /\ sess[p].result = "InvalidToken"
        /\ \E u \in users : u.reset_token = None

\* C20: authenticate changes nothing, whether it succeeds or fails: the rows
\* are as before, and every pending token still redeems with a valid
\* password.
C20_AuthenticateReadOnly ==
    last.op = "signin" =>
        /\ users = before
        /\ \A u \in before :
               u.reset_token # None =>
                   \A pw \in Passwords :
                       PolicyOK(pw) =>
                           \A o \in reset_password(users, u.reset_token, pw) :
                               o.result = "ok"

C20_Witness ==
    /\ last.op = "signin" /\ last.result = "ok"
    /\ \E u \in users : u.email = last.email /\ u.reset_token # None

====
